---- MODULE Spec2Model ----
(***************************************************************************)
(* Model of src/mexc_xaut_usdt.py: the REST client req_get, the candle     *)
(* page decoder, the forward and backward backfill loops, the driver's     *)
(* one-shot calls and the WebSocket recorder MexcWSRecorder.               *)
(*                                                                         *)
(* One operation of the program runs at a time (the script is single       *)
(* threaded until the recorder starts its threads): `op` names the         *)
(* function being executed and `pc` its position.  Timestamps are epoch    *)
(* seconds; REST delays are milliseconds; recorder time is seconds.        *)
(*                                                                         *)
(* A candle row carries t, interval and one content column `open`, which   *)
(* stands for the columns open, high, low, close, vol and amount; t_iso is *)
(* a function of t and is left out.  Candle timestamps range over a finite *)
(* set: _kline_payload_to_df passes them to pd.to_datetime(unit="s"),      *)
(* which raises outside the range of a nanosecond timestamp.               *)
(***************************************************************************)
EXTENDS Integers, Sequences, FiniteSets, TLC

VARIABLES
    op,          \* function being executed: "idle" before any call
    pc,          \* "idle" | "loop" | "done" | "failed" (exception propagated)
    upstream,    \* behaviour of the exchange: "any" | "honest" | "repeat"
    page,        \* repeat upstream: the one payload it answers every request with
    H,           \* honest upstream: the candles it holds, as t -> open (0 = no candle)
    interval,    \* parameter `interval` of the running backfill
    start_s,     \* parameter `start_s` of fetch_kline_range
    end_s,       \* local/parameter `end_s`
    end0,        \* value of end_s when the call started
    cur_start,   \* local `cur_start` of fetch_kline_range
    last_min_t,  \* local `last_min_t` (None before the first full page)
    all_df,      \* local `all_df`: list of decoded pages
    out,         \* the returned DataFrame, as its sequence of rows
    reqs,        \* parameters of the req_get calls of the running operation, in order
    idle,        \* ms slept since the last outbound HTTP attempt (None before the first)
    min_gap,     \* least ms slept between two consecutive outbound HTTP attempts (None: fewer than two)
    attempts,    \* HTTP attempts made by the last req_get call
    ret,         \* what the last req_get call returned (JList when it raised)
    script,      \* outcome of each HTTP attempt of the directly called req_get
    run,         \* how many times the backfill was run against this upstream
    out1,        \* result of the first run, kept for comparison
    totalPage,   \* honest funding upstream: the page count it reports (None otherwise)
    page_num,    \* local `page` of get_funding_history (sent as page_num)
    rows,        \* local `rows` of get_funding_history
    total_page,  \* local `total_page` of get_funding_history (None before page 1 is read)
    total_page_1, \* the value total_page took on page 1 (None before)
    job_i,       \* main(): position in the backfill loops (None outside them)
    csv,         \* main(): per backfill job, whether save_csv ran and with which rows
    errors,      \* main(): the jobs whose except branch printed the failure
    attempted,   \* main(): the jobs whose backfill function was called
    payload,     \* _kline_payload_to_df called on its own: its argument
    ws_state,    \* the recorder's connection: "none" | "connecting" | "open" | "closed"
    stop,        \* MexcWSRecorder._stop (threading.Event)
    run_seconds_arg, \* argument run_seconds of MexcWSRecorder(...)
    run_seconds, \* MexcWSRecorder.run_seconds
    depth_limit, \* MexcWSRecorder.depth_limit
    clock,       \* wall clock, seconds since run() was called
    opened_at,   \* clock value when _on_open ran (None before)
    ping,        \* the _ping_loop thread: [state, wake]
    stopper,     \* the _stopper thread: [state, due]
    sent,        \* messages sent on the socket, in order
    files,       \* content of each stream file, as its lines
    outdir,      \* the stream files as __init__ found them: [exists, lines] each
    received,    \* inbound messages handled so far
    msg,         \* the inbound message handled last
    msg_raised,  \* whether _on_message raised while handling it
    closed_at,   \* clock value when the connection ended (None before)
    closed_by,   \* what ended it: "none" | "stopper" | "on_close"
    stop_at,     \* clock value when _stop was first set in this run (None before)
    stop_by,     \* who set it first: "none" | "stopper" | "on_close" | "external"
    ping_after_stop,  \* _ping_loop called ws.send with _stop already set
    session,     \* recorder: which call of run() this is (0 before the first)
    run_at,      \* recorder: when run() was called
    old_ping,    \* recorder: the ping thread started by the earlier run()
    old_stopper  \* recorder: the stopper thread started by the earlier run()

vars == <<op, pc, upstream, page, H, interval, start_s, end_s, end0, cur_start,
          last_min_t, all_df, out, reqs, idle, min_gap, attempts, ret, script,
          run, out1, totalPage, page_num, rows, total_page, total_page_1,
          job_i, csv, errors, attempted, payload, ws_state, stop, run_seconds_arg, run_seconds, depth_limit, clock,
          opened_at, ping, stopper, sent, files, outdir, received, msg,
          msg_raised, closed_at, closed_by, stop_at, stop_by, ping_after_stop,
          session, run_at, old_ping, old_stopper>>

restVars == <<upstream, page, H, interval, start_s, end_s, end0, cur_start,
              last_min_t, all_df, out, reqs, idle, min_gap, attempts, ret, script,
              run, out1, totalPage, page_num, rows, total_page, total_page_1,
              job_i, csv, errors, attempted, payload>>

mainVars == <<job_i, csv, errors, attempted>>
decodeVars == <<payload>>

fundingVars == <<totalPage, page_num, rows, total_page, total_page_1>>

wsHist == <<closed_at, closed_by, stop_at, stop_by, ping_after_stop>>

wsVars == <<ws_state, stop, run_seconds_arg, run_seconds, depth_limit, clock,
            opened_at, ping, stopper, sent, files, outdir, received, msg,
            msg_raised, closed_at, closed_by, stop_at, stop_by, ping_after_stop,
            session, run_at, old_ping, old_stopper>>

reuseVars == <<session, run_at, old_ping, old_stopper>>

----------------------------------------------------------------------------
(* Bounds of the model *)

MaxPages == 4      \* get_funding_history is followed up to this page number
MaxT == 3          \* candle timestamps are 0, 60, ..., 60 * MaxT
NumVals == 2       \* distinct candle contents the upstream may serve for one timestamp

(* Program constants *)

KLINE_MAX == 2             \* page size ceiling (2000 in the source, scaled)
REQ_SLEEP == 150           \* 0.15 s, in ms
RETRIES == 5               \* range(5)
BACKOFF == 600             \* 0.6 s, in ms

None == -1

INTERVAL_SECONDS(i) ==
    CASE i = "Min1" -> 60 [] i = "Min5" -> 300 [] i = "Min15" -> 900
      [] i = "Min30" -> 1800 [] i = "Min60" -> 3600 [] i = "Hour4" -> 14400
      [] i = "Hour8" -> 28800 [] i = "Day1" -> 86400 [] i = "Week1" -> 604800
      [] i = "Month1" -> 2592000
      [] OTHER -> 60

Intervals == {"Min1"}
TS == {60 * k : k \in 0..MaxT}
Vals == 1..NumVals

Min(a, b) == IF a <= b THEN a ELSE b
SetMin(S) == CHOOSE x \in S : \A y \in S : x <= y
SetMax(S) == CHOOSE x \in S : \A y \in S : x >= y

----------------------------------------------------------------------------
(* JSON values of the REST surface *)

JList == [tag |-> "list"]
KlineDict(time, open) ==
    [tag |-> "dict", keys |-> {"time", "open"}, time |-> time, open |-> open]
(* an answer that arrives with HTTP 200 and reports a failure:              *)
(* {"success": false, "code": ..., "message": ...}, without "data"         *)
ErrorEnvelope ==
    [tag |-> "dict", keys |-> {"success", "code", "message"}, success |-> FALSE]
Envelope(keys, inner) ==
    [tag |-> "dict", keys |-> keys \cup {"data"}, data |-> inner]

(* the elements of a set of integers, in ascending order *)
RECURSIVE SeqOfSet(_)
SeqOfSet(S) ==
    IF S = {} THEN << >>
    ELSE LET m == SetMin(S) IN <<m>> \o SeqOfSet(S \ {m})

TimeArrays == {SeqOfSet(S) : S \in {X \in SUBSET TS : Cardinality(X) <= KLINE_MAX}}
OpenArrays(n) == {[i \in 1..n |-> v] : v \in Vals}

(* the candle pages an arbitrary upstream may answer with: timestamps in    *)
(* ascending order, at most KLINE_MAX of them, and one of the contents for  *)
(* the candles of the page (a candle served again on a later page may come  *)
(* with another content)                                                    *)
KlinePayloads ==
    {JList} \cup
    UNION {{KlineDict(tm, o) : o \in OpenArrays(Len(tm))} : tm \in TimeArrays}

----------------------------------------------------------------------------
(* req_get: for attempt in range(5): try requests.get ... except: raise on  *)
(* attempt 4, else sleep 0.6 * (attempt + 1).  `sc' gives the outcome     *)
(* of each HTTP attempt, should it be made.                                 *)

Fail == [ok |-> FALSE, json |-> JList]
Ok(json) == [ok |-> TRUE, json |-> json]
Script(nfail, json) == [i \in 1..RETRIES |-> IF i <= nfail THEN Fail ELSE Ok(json)]

isinstance_dict(x) == x.tag = "dict"
has_key(x, k) == k \in x.keys

(* the unwrapping as it would be if every object with a "data" key were   *)
(* taken for an envelope                                                    *)
unwrap_any_data(data) ==
    IF isinstance_dict(data) /\ has_key(data, "data")
    THEN data.data
    ELSE data

(* if isinstance(data, dict) and "data" in data and ("success" in data or  *)
(* "code" in data): return data["data"]; return data                        *)
unwrap(data) ==
    IF isinstance_dict(data) /\ has_key(data, "data")
       /\ (has_key(data, "success") \/ has_key(data, "code"))
    THEN data.data
    ELSE data

(* req_get as it would be without `if attempt == 4: raise` *)
RECURSIVE req_get_no_raise(_, _, _)
req_get_no_raise(sc, attempt, sleeps) ==
    IF attempt >= RETRIES
    THEN [raised |-> FALSE, data |-> [tag |-> "dict", keys |-> {}],
          attempts |-> attempt, sleeps |-> sleeps]
    ELSE IF sc[attempt + 1].ok
    THEN [raised |-> FALSE, data |-> unwrap(sc[attempt + 1].json),
          attempts |-> attempt + 1, sleeps |-> sleeps]
    ELSE req_get_no_raise(sc, attempt + 1, Append(sleeps, BACKOFF * (attempt + 1)))

RECURSIVE req_get_from(_, _, _)
req_get_from(sc, attempt, sleeps) ==
    IF attempt >= RETRIES
    THEN [raised |-> FALSE, data |-> [tag |-> "dict", keys |-> {}],
          attempts |-> attempt, sleeps |-> sleeps]
    ELSE IF sc[attempt + 1].ok
    THEN [raised |-> FALSE, data |-> unwrap(sc[attempt + 1].json),
          attempts |-> attempt + 1, sleeps |-> sleeps]
    ELSE IF attempt = 4
    THEN [raised |-> TRUE, data |-> JList,
          attempts |-> attempt + 1, sleeps |-> sleeps]
    ELSE req_get_from(sc, attempt + 1, Append(sleeps, BACKOFF * (attempt + 1)))

req_get(sc) == req_get_from(sc, 0, << >>)

(* bookkeeping of the spacing between outbound attempts of one req_get call *)
RECURSIVE SeqMin(_)
SeqMin(s) ==
    IF Len(s) = 1 THEN s[1] ELSE Min(s[1], SeqMin(Tail(s)))

MinOpt(a, b) == IF a = None THEN b ELSE IF b = None THEN a ELSE Min(a, b)

GapAfter(r) ==
    MinOpt(MinOpt(min_gap, idle),
           IF r.sleeps = << >> THEN None ELSE SeqMin(r.sleeps))

----------------------------------------------------------------------------
(* _kline_payload_to_df and the pandas operations of the backfill          *)

Null == 0

(* the decoding as it would be if a payload without "open" had no candle *)
kline_payload_to_df_needs_open(data, itv) ==
    IF ~isinstance_dict(data) \/ ~has_key(data, "time") \/ ~has_key(data, "open")
    THEN << >>
    ELSE [i \in 1..Len(data.time) |->
             [t |-> data.time[i], interval |-> itv, open |-> data.open[i]]]

kline_payload_to_df(data, itv) ==
    IF ~isinstance_dict(data) \/ ~has_key(data, "time")
    THEN << >>
    ELSE IF data.time = << >>
    THEN << >>
    ELSE LET n == Len(data.time)
             col_open == IF has_key(data, "open") THEN data.open
                         ELSE [i \in 1..n |-> Null]
         IN [i \in 1..n |->
                [t |-> data.time[i], interval |-> itv, open |-> col_open[i]]]

RECURSIVE concat(_)
concat(dfs) == IF dfs = << >> THEN << >> ELSE Head(dfs) \o concat(Tail(dfs))

Key(row) == <<row.t, row.interval>>

(* drop_duplicates as it would be with keep="last" *)
drop_duplicates_keep_last(df) ==
    LET idx == {i \in 1..Len(df) :
                  \A j \in (i + 1)..Len(df) : Key(df[j]) # Key(df[i])}
        order == SeqOfSet(idx)
    IN [k \in 1..Len(order) |-> df[order[k]]]

(* DataFrame.drop_duplicates(subset=["t","interval"]): pandas' default keep="first" *)
RECURSIVE drop_duplicates_from(_, _)
drop_duplicates_from(df, kept) ==
    IF df = << >> THEN kept
    ELSE IF \E i \in 1..Len(kept) : Key(kept[i]) = Key(Head(df))
         THEN drop_duplicates_from(Tail(df), kept)
         ELSE drop_duplicates_from(Tail(df), Append(kept, Head(df)))

drop_duplicates(df) == drop_duplicates_from(df, << >>)

(* DataFrame.sort_values(["t"]): ascending by t *)
RECURSIVE insert_sorted(_, _)
insert_sorted(row, sorted) ==
    IF sorted = << >> THEN <<row>>
    ELSE IF row.t < Head(sorted).t THEN <<row>> \o sorted
    ELSE <<Head(sorted)>> \o insert_sorted(row, Tail(sorted))

RECURSIVE sort_values(_)
sort_values(df) ==
    IF df = << >> THEN << >>
    ELSE insert_sorted(df[Len(df)], sort_values(SubSeq(df, 1, Len(df) - 1)))

min_t(df) == SetMin({df[i].t : i \in 1..Len(df)})

(* variants of the post-accumulation step: without the sort, without the    *)
(* deduplication                                                            *)
finalize_kline_unsorted(acc) ==
    IF acc = << >> THEN << >>
    ELSE drop_duplicates(concat(acc))

finalize_kline_keep_dups(acc) ==
    IF acc = << >> THEN << >>
    ELSE sort_values(concat(acc))

finalize_kline(acc) ==
    IF acc = << >> THEN << >>
    ELSE sort_values(drop_duplicates(concat(acc)))

finalize_concat(acc) ==
    IF acc = << >> THEN << >> ELSE concat(acc)

----------------------------------------------------------------------------
(* The exchange *)

NowS == 60 * MaxT + 59          \* to_epoch_s(now_utc()) at the time of the call
Ends == {0, 90, NowS}           \* explicit end_s arguments
FailCounts == {0, RETRIES}      \* failed attempts before the first success, inside the loops

(* the candles of H inside [lo, hi], newest KLINE_MAX of them, oldest first *)
RECURSIVE Newest(_, _)
Newest(S, n) ==
    IF S = {} \/ n = 0 THEN {}
    ELSE LET m == SetMax(S) IN {m} \cup Newest(S \ {m}, n - 1)

HonestPage(lo, hi) ==
    LET have == {t \in TS : H[t] # Null /\ lo <= t /\ t <= hi}
        tm == SeqOfSet(Newest(have, KLINE_MAX))
    IN KlineDict(tm, [i \in 1..Len(tm) |-> H[tm[i]]])

Scripts(lo, hi) ==
    IF upstream = "honest"
    THEN {Script(0, Envelope({"success"}, HonestPage(lo, hi)))}
    ELSE IF upstream = "repeat"
    THEN {Script(0, Envelope({"success"}, page))}
    ELSE {Script(n, Envelope({"success"}, p)) : n \in FailCounts, p \in KlinePayloads}
           \cup {Script(0, ErrorEnvelope)}

(* the exchange a backfill call runs against *)
Exchange ==
    /\ upstream' \in {"any", "honest", "repeat"}
    /\ H' \in [TS -> {Null} \cup Vals]
    /\ (upstream' # "honest" => H' = [t \in TS |-> Null])
    /\ page' \in KlinePayloads
    /\ (upstream' # "repeat" => page' = JList)

----------------------------------------------------------------------------
(* The stream recorder's constants *)

PING_SLEEP == 15                    \* time.sleep(15) in _ping_loop
MIN_RUN_SECONDS == 10               \* max(10, run_seconds)
WS_DEPTH_LIMIT == 20
TickS == PING_SLEEP \div 3          \* granularity of the model's clock
MaxClock == 30                      \* the clock is observed up to here
MaxMsgs == 2                        \* inbound messages per session
RunSecondsArgs == {TickS, PING_SLEEP, 4 * TickS}
DepthLimitArgs == {TickS, WS_DEPTH_LIMIT}
(* the constructor calls followed *)
RecorderArgs ==
    {a \in [run_seconds : RunSecondsArgs, depth_limit : DepthLimitArgs] :
        (a.depth_limit = WS_DEPTH_LIMIT) <=> (a.run_seconds # PING_SLEEP)}
(* how long after run() the connection opens, when it does *)
OpenDelays == {0, TickS}
(* when another thread sets the stop flag, if one does *)
StopSignalTimes == {TickS}

SinkKeys == {"deal", "depth", "ticker", "index", "fair", "funding"}

(* the output directory a recorder is constructed on: without stream files, *)
(* or with a deal file left by an earlier session and an empty ticker file  *)
FreshOutdir == [k \in SinkKeys |-> [exists |-> FALSE, lines |-> << >>]]
OldOutdir ==
    [k \in SinkKeys |->
        IF k = "deal" THEN [exists |-> TRUE, lines |-> <<"header", "push.deal">>]
        ELSE IF k = "ticker" THEN [exists |-> TRUE, lines |-> << >>]
        ELSE [exists |-> FALSE, lines |-> << >>]]
OutdirFor(a) == IF a.run_seconds = PING_SLEEP THEN OldOutdir ELSE FreshOutdir

(* __init__ as it would be if it wrote the header unconditionally:          *)
(* open(path, "w") truncates                                                *)
init_file_always(f) == <<"header">>

(* if not os.path.exists(path): open(path, "w") and write the header line *)
init_file(f) == IF ~f.exists THEN <<"header">> ELSE f.lines

Sub(method) == [method |-> method, limit |-> None]
Ping == [method |-> "ping", limit |-> None]

(* _on_open without the subscription to the funding rate *)
Subscriptions_without_funding ==
    << Sub("sub.ticker"), Sub("sub.deal"),
       [method |-> "sub.depth.full", limit |-> depth_limit],
       Sub("sub.index.price"), Sub("sub.fair.price") >>

Subscriptions ==
    << Sub("sub.ticker"), Sub("sub.deal"),
       [method |-> "sub.depth.full", limit |-> depth_limit],
       Sub("sub.index.price"), Sub("sub.fair.price"), Sub("sub.funding.rate") >>

Max(a, b) == IF a >= b THEN a ELSE b

(* inbound messages: text that json.loads rejects, or an object with a      *)
(* channel (absent or null: "") and a data member that is an object or null *)
Channels ==
    [deal |-> "push.deal", depth |-> "push.depth", ticker |-> "push.ticker",
     index |-> "push.index.price", fair |-> "push.fair.price",
     funding |-> "push.funding.rate"]

NoMsg == [json |-> FALSE, channel |-> "", data |-> "null"]

(* the texts the connection delivers: one that json.loads rejects; an      *)
(* object for the deal, depth, ticker and index channels (the fair and      *)
(* funding branches are the index branch with another file); a null `data`  *)
(* on a branch that calls data.get and on the ticker branch; no channel; an *)
(* unknown channel                                                          *)
ServedKeys == {"deal", "depth", "ticker", "index"}

Messages ==
    {NoMsg}
      \cup {[json |-> TRUE, channel |-> Channels[k], data |-> "object"] :
               k \in ServedKeys}
      \cup {[json |-> TRUE, channel |-> Channels[k], data |-> "null"] :
               k \in {"deal", "ticker"}}
      \cup {[json |-> TRUE, channel |-> "", data |-> "object"],
            [json |-> TRUE, channel |-> "push.other", data |-> "null"]}

----------------------------------------------------------------------------
(* State after the module is loaded: nothing called yet *)

(* main(): the interval lists, cut to their first entries *)
KLINE_INTERVALS == <<"Min1", "Min5">>
INDEX_FAIR_INTERVALS == <<"Min1">>

(* the try blocks of the two loops, in the order main() runs them *)
MainJobs ==
    [i \in 1..Len(KLINE_INTERVALS) |->
        [fn |-> "fetch_kline_full_history", itv |-> KLINE_INTERVALS[i]]]
    \o [i \in 1..(2 * Len(INDEX_FAIR_INTERVALS)) |->
        [fn |-> IF i % 2 = 1 THEN "fetch_index_kline_full"
                ELSE "fetch_fair_kline_full",
         itv |-> INDEX_FAIR_INTERVALS[(i + 1) \div 2]]]

NotSaved == [saved |-> FALSE, rows |-> << >>]

Init ==
    /\ op = "idle" /\ pc = "idle"
    /\ upstream = "any" /\ H = [t \in TS |-> Null] /\ page = JList
    /\ interval = "Min1" /\ start_s = None /\ end_s = None /\ end0 = None
    /\ cur_start = None /\ last_min_t = None
    /\ all_df = << >> /\ out = << >> /\ reqs = << >>
    /\ idle = None /\ min_gap = None /\ attempts = 0 /\ ret = JList
    /\ script = << >>
    /\ run = 0 /\ out1 = << >>
    /\ totalPage = None /\ page_num = None /\ rows = << >>
    /\ total_page = None /\ total_page_1 = None
    /\ job_i = None /\ csv = [j \in 0..Len(MainJobs) |-> NotSaved] /\ errors = {}
    /\ attempted = {}
    /\ payload = JList
    /\ ws_state = "none" /\ stop = FALSE
    /\ run_seconds_arg = 0 /\ run_seconds = 0 /\ depth_limit = 0
    /\ clock = 0 /\ opened_at = None
    /\ ping = [state |-> "none", wake |-> 0]
    /\ stopper = [state |-> "none", due |-> 0]
    /\ session = 0 /\ run_at = 0
    /\ old_ping = [state |-> "none", wake |-> 0]
    /\ old_stopper = [state |-> "none", due |-> 0]
    /\ sent = << >>
    /\ files = [k \in SinkKeys |-> << >>]
    /\ outdir = FreshOutdir
    /\ received = 0
    /\ msg = NoMsg /\ msg_raised = FALSE
    /\ closed_at = None /\ closed_by = "none"
    /\ stop_at = None /\ stop_by = "none"
    /\ ping_after_stop = FALSE

(* the pacing as it would be if only the K-line loops slept *)
sleep_after_page_kline_only(fn) ==
    IF fn = "get_funding_history" THEN REQ_SLEEP - REQ_SLEEP ELSE REQ_SLEEP

(* time.sleep(REQ_SLEEP), the last statement of an iteration that goes on *)
sleep_after_page(fn) == REQ_SLEEP

Request(r, start, end) ==
    /\ reqs' = Append(reqs, [start |-> start, end |-> end])
    /\ attempts' = r.attempts
    /\ min_gap' = GapAfter(r)
    /\ ret' = r.data

----------------------------------------------------------------------------
(* Backward (full-history) pagination *)

Backward == {"fetch_kline_full_history", "fetch_index_kline_full", "fetch_fair_kline_full"}

enter_backward(fn, ends) ==
    /\ pc = "idle"
    /\ UNCHANGED wsVars
    /\ UNCHANGED mainVars
    /\ UNCHANGED decodeVars
    /\ UNCHANGED fundingVars
    /\ Exchange
    /\ op' = fn /\ pc' = "loop" /\ run' = 1
    /\ \E itv \in Intervals : interval' = itv
    /\ \E e \in ends : end_s' = e /\ end0' = e
    /\ all_df' = << >> /\ last_min_t' = None
    /\ UNCHANGED <<start_s, cur_start, out, reqs, idle, min_gap,
                   attempts, ret, script, out1>>

call_fetch_kline_full_history ==
    /\ enter_backward("fetch_kline_full_history", Ends)
    /\ (upstream' = "any" => end_s' = NowS)

call_fetch_index_kline_full == enter_backward("fetch_index_kline_full", {NowS})

call_fetch_fair_kline_full == enter_backward("fetch_fair_kline_full", {NowS})

(* variants of the two break conditions, used to see which properties      *)
(* depend on them                                                           *)
short_page_off_by_one(df) == Len(df) < KLINE_MAX - 1

short_page_le(df) == Len(df) <= KLINE_MAX

(* if len(df) < KLINE_MAX: break *)
short_page(df) == Len(df) < KLINE_MAX

guard_fires_off(lmt, earliest) == FALSE

guard_fires_strict(lmt, earliest) == lmt # None /\ earliest > lmt

(* if last_min_t is not None and earliest >= last_min_t: break *)
guard_fires(lmt, earliest) == lmt # None /\ earliest >= lmt

(* the cursor as it would be if it stayed on the earliest candle *)
next_end_inclusive(earliest) == earliest

(* end_s = earliest - 1 *)
next_end(earliest) == earliest - 1

(* the loops as they would be without the test for an empty page *)
df_empty_never(df) == FALSE

(* if df.empty: break *)
df_empty(df) == df = << >>

(* what each function returns from the accumulated pages *)
returned(fn, acc) ==
    IF fn = "fetch_kline_full_history" THEN finalize_kline(acc)
    ELSE finalize_concat(acc)

(* one iteration of `while True`, up to the return when the loop breaks *)
backward_iteration(fn) ==
    /\ op = fn /\ pc = "loop"
    /\ UNCHANGED wsVars
    /\ UNCHANGED mainVars
    /\ UNCHANGED decodeVars
    /\ UNCHANGED fundingVars
    /\ \E sc \in Scripts(0, end_s) :
        LET r == req_get(sc)
            df == kline_payload_to_df(r.data, interval)
            acc == Append(all_df, df)
        IN  /\ Request(r, None, end_s)
            /\ IF r.raised
               THEN /\ pc' = "failed" /\ idle' = 0
                    /\ UNCHANGED <<all_df, last_min_t, end_s, out>>
               ELSE IF df_empty(df)
               THEN /\ pc' = "done" /\ idle' = 0
                    /\ out' = returned(fn, all_df)
                    /\ UNCHANGED <<all_df, last_min_t, end_s>>
               ELSE IF short_page(df) \/ guard_fires(last_min_t, min_t(df))
               THEN /\ pc' = "done" /\ idle' = 0
                    /\ all_df' = acc
                    /\ out' = returned(fn, acc)
                    /\ UNCHANGED <<last_min_t, end_s>>
               ELSE /\ pc' = "loop" /\ idle' = sleep_after_page(fn)
                    /\ all_df' = acc
                    /\ last_min_t' = min_t(df)
                    /\ end_s' = next_end(min_t(df))
                    /\ UNCHANGED out
    /\ UNCHANGED <<op, upstream, page, H, interval, start_s, end0, cur_start,
                   script, run, out1>>

fetch_kline_full_history == backward_iteration("fetch_kline_full_history")

fetch_index_kline_full == backward_iteration("fetch_index_kline_full")

fetch_fair_kline_full == backward_iteration("fetch_fair_kline_full")

(* the same backfill called again with the same arguments *)
call_again ==
    /\ op = "fetch_kline_full_history" /\ pc = "done" /\ run = 1
    /\ UNCHANGED wsVars
    /\ UNCHANGED mainVars
    /\ UNCHANGED decodeVars
    /\ UNCHANGED fundingVars
    /\ upstream \in {"honest", "repeat"}
    /\ pc' = "loop" /\ run' = 2 /\ out1' = out
    /\ end_s' = end0 /\ all_df' = << >> /\ last_min_t' = None
    /\ out' = << >> /\ reqs' = << >>
    /\ idle' = None
    /\ UNCHANGED <<op, upstream, page, H, interval, start_s, end0, cur_start,
                   min_gap, attempts, ret, script>>

----------------------------------------------------------------------------
(* Forward-range pagination *)

RangeStarts == {0, 60}
RangeEnds(s, step) ==
    {s - 1, s + 30, s + step - 1, s + step, s + 2 * step - 1}
(* a range of three windows, walked against the deterministic upstreams *)
LongRangeEnd(s, step) == s + 2 * step + 30

(* the window end as it would be without the `- 1` *)
window_end_overlap(cs, e, step) == Min(e, cs + step)

(* cur_end = min(end_s, cur_start + step - 1) *)
window_end(cs, e, step) == Min(e, cs + step - 1)

call_fetch_kline_range ==
    /\ pc = "idle"
    /\ UNCHANGED wsVars
    /\ UNCHANGED mainVars
    /\ UNCHANGED decodeVars
    /\ UNCHANGED fundingVars
    /\ Exchange
    /\ op' = "fetch_kline_range" /\ run' = 1
    /\ \E itv \in Intervals, s \in RangeStarts :
         \E e \in RangeEnds(s, INTERVAL_SECONDS(itv) * KLINE_MAX)
                   \cup {LongRangeEnd(s, INTERVAL_SECONDS(itv) * KLINE_MAX)} :
            /\ (e = LongRangeEnd(s, INTERVAL_SECONDS(itv) * KLINE_MAX)
                    => upstream' # "any")
            /\ interval' = itv /\ start_s' = s /\ end_s' = e /\ end0' = e
            /\ cur_start' = s
            /\ pc' = IF s <= e THEN "loop" ELSE "done"
    /\ all_df' = << >> /\ out' = << >>
    /\ UNCHANGED <<last_min_t, reqs, idle, min_gap, attempts, ret, script, out1>>

fetch_kline_range ==
    /\ op = "fetch_kline_range" /\ pc = "loop"
    /\ UNCHANGED wsVars
    /\ UNCHANGED mainVars
    /\ UNCHANGED decodeVars
    /\ UNCHANGED fundingVars
    /\ LET step == INTERVAL_SECONDS(interval) * KLINE_MAX
           cur_end == window_end(cur_start, end_s, step)
       IN \E sc \in Scripts(cur_start, cur_end) :
           LET r == req_get(sc)
               df == kline_payload_to_df(r.data, interval)
               acc == Append(all_df, df)
           IN  /\ Request(r, cur_start, cur_end)
               /\ IF r.raised
                  THEN /\ pc' = "failed" /\ idle' = 0
                       /\ UNCHANGED <<all_df, cur_start, out>>
                  ELSE /\ all_df' = acc
                       /\ cur_start' = cur_end + 1
                       /\ idle' = sleep_after_page("fetch_kline_range")
                       /\ IF cur_end + 1 <= end_s
                          THEN pc' = "loop" /\ UNCHANGED out
                          ELSE pc' = "done" /\ out' = finalize_kline(acc)
    /\ UNCHANGED <<op, upstream, page, H, interval, start_s, end_s, end0,
                   last_min_t, script, run, out1>>

----------------------------------------------------------------------------
(* get_funding_history *)

FundingDict(keys, resultList, tp) ==
    [tag |-> "dict", keys |-> keys, resultList |-> resultList, totalPage |-> tp]

(* the honest upstream has totalPage pages of one record each and says so   *)
(* on every page                                                            *)
HonestFunding(p) ==
    FundingDict({"resultList", "totalPage"},
                IF p <= totalPage THEN <<p>> ELSE << >>, totalPage)

(* what an arbitrary upstream may answer: no object, an object without      *)
(* resultList, a page (empty, or holding the record with settleTime 1) with *)
(* any totalPage or without one                                             *)
FundingJson ==
    {JList, FundingDict({"totalPage"}, << >>, 1)}
      \cup {FundingDict({"resultList"}, rl, None) : rl \in {<< >>, <<1>>}}
      \cup {FundingDict({"resultList", "totalPage"}, rl, tp) :
                rl \in {<< >>, <<1>>}, tp \in 0..(MaxPages + 1)}

FundingScripts(p) ==
    IF upstream = "honest"
    THEN {Script(n, Envelope({"success"}, HonestFunding(p))) : n \in {0, 1}}
    ELSE {Script(n, Envelope({"success"}, j)) : n \in FailCounts, j \in FundingJson}

call_get_funding_history ==
    /\ pc = "idle"
    /\ UNCHANGED wsVars
    /\ UNCHANGED mainVars
    /\ UNCHANGED decodeVars
    /\ op' = "get_funding_history" /\ pc' = "loop" /\ run' = 1
    /\ upstream' \in {"any", "honest"}
    /\ totalPage' \in {None} \cup 0..MaxPages
    /\ (upstream' = "honest") <=> (totalPage' # None)
    /\ page_num' = 1 /\ rows' = << >>
    /\ UNCHANGED <<page, H, interval, start_s, end_s, end0, cur_start, last_min_t,
                   all_df, out, reqs, idle, min_gap, attempts, ret, script, out1,
                   total_page, total_page_1>>

(* the break condition as it would be with `>` *)
last_page_gt(p, tp) == p > tp

(* if page >= total_page: break *)
last_page(p, tp) == p >= tp

(* one iteration of `while True`, up to the return when the loop breaks *)
get_funding_history ==
    /\ op = "get_funding_history" /\ pc = "loop"
    /\ page_num <= MaxPages
    /\ UNCHANGED wsVars
    /\ UNCHANGED mainVars
    /\ UNCHANGED decodeVars
    /\ \E sc \in FundingScripts(page_num) :
        LET r == req_get(sc)
            data == r.data
        IN  /\ reqs' = Append(reqs, [page_num |-> page_num])
            /\ attempts' = r.attempts
            /\ min_gap' = GapAfter(r)
            /\ ret' = data
            /\ IF r.raised
               THEN /\ pc' = "failed" /\ idle' = 0
                    /\ UNCHANGED <<page_num, rows, total_page, total_page_1, out>>
               ELSE IF ~isinstance_dict(data) \/ ~has_key(data, "resultList")
               THEN /\ pc' = "done" /\ idle' = 0
                    /\ out' = rows
                    /\ UNCHANGED <<page_num, rows, total_page, total_page_1>>
               ELSE LET rl == data.resultList
                        rs == rows \o [i \in 1..Len(rl) |-> [settleTime |-> rl[i]]]
                        tp == IF has_key(data, "totalPage") THEN data.totalPage
                              ELSE page_num
                    IN  /\ rows' = rs
                        /\ total_page' = tp
                        /\ total_page_1' = IF page_num = 1 THEN tp ELSE total_page_1
                        /\ IF last_page(page_num, tp)
                           THEN /\ pc' = "done" /\ idle' = 0
                                /\ out' = rs
                                /\ UNCHANGED page_num
                           ELSE /\ pc' = "loop"
                                /\ idle' = sleep_after_page("get_funding_history")
                                /\ page_num' = page_num + 1
                                /\ UNCHANGED out
    /\ UNCHANGED <<op, upstream, page, H, interval, start_s, end_s, end0, cur_start,
                   last_min_t, all_df, script, run, out1, totalPage>>

----------------------------------------------------------------------------
(* Direct calls of req_get: the one-shot wrappers (get_ticker, ...) return  *)
(* its result as it is                                                      *)

DirectJson ==
    { Envelope({"success"}, KlineDict(<<0>>, <<1>>)),
      Envelope({"code"}, JList),
      Envelope({}, JList),
      KlineDict(<<0>>, <<1>>),
      [tag |-> "dict", keys |-> {"success"}],
      JList }

DirectScripts == [1..RETRIES -> {Fail} \cup {Ok(j) : j \in DirectJson}]

OneShotScripts == {Script(n, j) : n \in {0, 1, RETRIES}, j \in DirectJson}

call_req_get ==
    /\ pc = "idle"
    /\ UNCHANGED wsVars
    /\ UNCHANGED mainVars
    /\ UNCHANGED decodeVars
    /\ UNCHANGED fundingVars
    /\ op' = "req_get"
    /\ \E sc \in DirectScripts :
        LET r == req_get(sc)
        IN  /\ script' = sc
            /\ Request(r, None, None)
            /\ idle' = 0
            /\ pc' = IF r.raised THEN "failed" ELSE "done"
    /\ UNCHANGED <<upstream, page, H, interval, start_s, end_s, end0, cur_start,
                   last_min_t, all_df, out, run, out1>>

(* main(), "Index & Fair (current)": idx = get_index_price(SYMBOL);         *)
(* fair = get_fair_price(SYMBOL) inside one try block                       *)

main_index_fair ==
    /\ pc = "idle"
    /\ UNCHANGED wsVars
    /\ UNCHANGED mainVars
    /\ UNCHANGED decodeVars
    /\ UNCHANGED fundingVars
    /\ op' = "main_index_fair" /\ pc' = "get_index_price"
    /\ UNCHANGED <<upstream, page, H, interval, start_s, end_s, end0, cur_start,
                   last_min_t, all_df, out, reqs, idle, min_gap, attempts, ret,
                   script, run, out1>>

one_shot(at, then) ==
    /\ op = "main_index_fair" /\ pc = at
    /\ UNCHANGED wsVars
    /\ UNCHANGED mainVars
    /\ UNCHANGED decodeVars
    /\ UNCHANGED fundingVars
    /\ \E sc \in OneShotScripts :
        LET r == req_get(sc)
        IN  /\ Request(r, None, None)
            /\ idle' = 0
            /\ pc' = IF r.raised THEN "failed" ELSE then
    /\ UNCHANGED <<op, upstream, page, H, interval, start_s, end_s, end0, cur_start,
                   last_min_t, all_df, out, script, run, out1>>

get_index_price == one_shot("get_index_price", "get_fair_price")

get_fair_price == one_shot("get_fair_price", "done")

----------------------------------------------------------------------------
(* _kline_payload_to_df called on one payload *)

(* objects that lack "time", or have "time" and lack "open" *)
DictWithout(key) ==
    IF key = "time"
    THEN {[tag |-> "dict", keys |-> {"open"}, open |-> o] :
             o \in UNION {OpenArrays(n) : n \in 0..KLINE_MAX}}
    ELSE {[tag |-> "dict", keys |-> {"time"}, time |-> tm] : tm \in TimeArrays}

DecodePayloads == KlinePayloads \cup DictWithout("time") \cup DictWithout("open")

call_kline_payload_to_df ==
    /\ pc = "idle"
    /\ UNCHANGED wsVars
    /\ UNCHANGED mainVars
    /\ UNCHANGED fundingVars
    /\ op' = "kline_payload_to_df" /\ pc' = "done"
    /\ \E p \in DecodePayloads, itv \in Intervals :
        /\ payload' = p
        /\ interval' = itv
        /\ out' = kline_payload_to_df(p, itv)
    /\ UNCHANGED <<upstream, page, H, start_s, end_s, end0, cur_start,
                   last_min_t, all_df, reqs, idle, min_gap, attempts, ret,
                   script, run, out1>>

----------------------------------------------------------------------------
(* main(): the backfill loops, with FULL_HISTORY = True *)

(* what the exchange answers the requests of a job with: its resource has  *)
(* no candle, fewer than a page of them, or one full page and then at most  *)
(* a short one                                                              *)
ShortPage == KlineDict(<<0>>, <<1>>)
FullPage ==
    LET tm == SeqOfSet(Newest(TS, KLINE_MAX))
    IN KlineDict(tm, [i \in 1..Len(tm) |-> 1])
MainPayloads == {JList, ShortPage, FullPage}
MainScripts ==
    {Script(n, Envelope({"success"}, p)) : n \in FailCounts, p \in MainPayloads}
MainScripts2 ==
    {Script(n, Envelope({"success"}, p)) : n \in FailCounts, p \in {JList, ShortPage}}

(* the backfill as it would be if it caught the failure of a later page and *)
(* returned the pages it had                                                *)
fetch_full_keep_partial(fn, itv, sc1, sc2) ==
    LET r1 == req_get(sc1)
        df1 == kline_payload_to_df(r1.data, itv)
        r2 == req_get(sc2)
        df2 == kline_payload_to_df(r2.data, itv)
    IN  IF r1.raised THEN [raised |-> TRUE, acc |-> << >>, rs |-> <<r1>>]
        ELSE IF df_empty(df1) THEN [raised |-> FALSE, acc |-> << >>, rs |-> <<r1>>]
        ELSE IF short_page(df1) THEN [raised |-> FALSE, acc |-> <<df1>>, rs |-> <<r1>>]
        ELSE IF r2.raised THEN [raised |-> FALSE, acc |-> <<df1>>, rs |-> <<r1, r2>>]
        ELSE IF df_empty(df2) THEN [raised |-> FALSE, acc |-> <<df1>>, rs |-> <<r1, r2>>]
        ELSE [raised |-> FALSE, acc |-> <<df1, df2>>, rs |-> <<r1, r2>>]

(* one call of a full-history function against such a resource: the loop    *)
(* of backward_iteration run to its end (a second page is short or empty).  *)
(* acc is all_df when the call ends, rs the req_get calls it made.          *)
fetch_full(fn, itv, sc1, sc2) ==
    LET r1 == req_get(sc1)
        df1 == kline_payload_to_df(r1.data, itv)
        r2 == req_get(sc2)
        df2 == kline_payload_to_df(r2.data, itv)
    IN  IF r1.raised THEN [raised |-> TRUE, acc |-> << >>, rs |-> <<r1>>]
        ELSE IF df_empty(df1) THEN [raised |-> FALSE, acc |-> << >>, rs |-> <<r1>>]
        ELSE IF short_page(df1) THEN [raised |-> FALSE, acc |-> <<df1>>, rs |-> <<r1>>]
        ELSE IF r2.raised THEN [raised |-> TRUE, acc |-> <<df1>>, rs |-> <<r1, r2>>]
        ELSE IF df_empty(df2) THEN [raised |-> FALSE, acc |-> <<df1>>, rs |-> <<r1, r2>>]
        ELSE [raised |-> FALSE, acc |-> <<df1, df2>>, rs |-> <<r1, r2>>]

(* main(), from the funding block on.  Job 0 is the funding history        *)
(* (funding_rate_history.csv), jobs 1.. are MainJobs.                       *)
main_backfills ==
    /\ pc = "idle"
    /\ UNCHANGED wsVars
    /\ op' = "main_backfills" /\ pc' = "funding"
    /\ job_i' = 0
    /\ UNCHANGED <<csv, errors, attempted>>
    /\ UNCHANGED decodeVars
    /\ UNCHANGED <<upstream, page, H, interval, start_s, end_s, end0, cur_start,
                   last_min_t, all_df, out, reqs, idle, min_gap, attempts, ret,
                   script, run, out1>>
    /\ UNCHANGED fundingVars

(* the current funding rate, and a funding history of at most one page *)
FundingNowScripts ==
    {Script(n, Envelope({"success"}, [tag |-> "dict", keys |-> {"fundingRate"}])) :
        n \in FailCounts}
MainFundingScripts ==
    {Script(n, Envelope({"success"}, j)) :
        n \in FailCounts,
        j \in {JList, FundingDict({"resultList", "totalPage"}, <<1>>, 1)}}

(* "Funding (now + history)": fr_now = get_funding_rate(SYMBOL); save_csv;  *)
(* df_fr_hist = get_funding_history(SYMBOL, page_size=1000); save_csv when  *)
(* not empty; all in one try block                                          *)
main_funding ==
    /\ op = "main_backfills" /\ pc = "funding"
    /\ UNCHANGED wsVars
    /\ UNCHANGED decodeVars
    /\ \E sc1 \in FundingNowScripts, sc2 \in MainFundingScripts :
        LET r1 == req_get(sc1)
            r2 == req_get(sc2)
            data == r2.data
            hist == IF isinstance_dict(data) /\ has_key(data, "resultList")
                    THEN [i \in 1..Len(data.resultList) |->
                             [settleTime |-> data.resultList[i]]]
                    ELSE << >>
        IN  IF r1.raised
            THEN /\ reqs' = Append(reqs, [start |-> None, end |-> None])
                 /\ attempts' = r1.attempts /\ ret' = r1.data
                 /\ min_gap' = GapAfter(r1)
                 /\ errors' = errors \cup {job_i}
                 /\ UNCHANGED <<csv, out, attempted>>
            ELSE /\ reqs' = reqs \o <<[start |-> None, end |-> None], [page_num |-> 1]>>
                 /\ attempts' = r2.attempts /\ ret' = r2.data
                 /\ min_gap' = MinOpt(MinOpt(GapAfter(r1), 0),
                                      IF r2.sleeps = << >> THEN None
                                      ELSE SeqMin(r2.sleeps))
                 /\ attempted' = attempted \cup {job_i}
                 /\ IF r2.raised
                    THEN /\ errors' = errors \cup {job_i}
                         /\ UNCHANGED <<csv, out>>
                    ELSE /\ out' = hist
                         /\ csv' = IF hist # << >>
                                   THEN [csv EXCEPT ![job_i] = [saved |-> TRUE, rows |-> hist]]
                                   ELSE csv
                         /\ UNCHANGED errors
    /\ idle' = 0
    /\ job_i' = 1 /\ pc' = "loop"
    /\ UNCHANGED <<op, upstream, page, H, interval, start_s, end_s, end0, cur_start,
                   last_min_t, all_df, script, run, out1>>
    /\ UNCHANGED fundingVars

(* main() as it would be with one try block around the loops: the first    *)
(* failure ends them                                                        *)
after_failure_abort(i) == Len(MainJobs) + 1

(* except Exception as e: print(...); the for loop goes on *)
after_failure(i) == i + 1

(* one try block: df = fetch_...(SYMBOL, itv); if not df.empty: save_csv   *)
main_backfill_job ==
    /\ op = "main_backfills" /\ pc = "loop"
    /\ UNCHANGED wsVars
    /\ UNCHANGED decodeVars
    /\ LET job == MainJobs[job_i]
       IN \E sc1 \in MainScripts, sc2 \in MainScripts2 :
           LET f == fetch_full(job.fn, job.itv, sc1, sc2)
               r1 == f.rs[1]
               last == f.rs[Len(f.rs)]
               res == returned(job.fn, f.acc)
               next == IF f.raised THEN after_failure(job_i) ELSE job_i + 1
           IN  /\ reqs' = reqs \o [i \in 1..Len(f.rs) |->
                                     [start |-> None,
                                      end |-> IF i = 1 THEN NowS
                                              ELSE next_end(min_t(f.acc[1]))]]
               /\ attempts' = last.attempts
               /\ ret' = last.data
               /\ min_gap' = IF Len(f.rs) = 1 THEN GapAfter(r1)
                             ELSE MinOpt(MinOpt(GapAfter(r1), sleep_after_page(job.fn)),
                                         IF last.sleeps = << >> THEN None
                                         ELSE SeqMin(last.sleeps))
               /\ idle' = 0
               /\ interval' = job.itv
               /\ all_df' = f.acc
               /\ attempted' = attempted \cup {job_i}
               /\ IF f.raised
                  THEN /\ errors' = errors \cup {job_i}
                       /\ UNCHANGED <<csv, out>>
                  ELSE /\ out' = res
                       /\ csv' = IF res # << >>
                                 THEN [csv EXCEPT ![job_i] = [saved |-> TRUE, rows |-> res]]
                                 ELSE csv
                       /\ UNCHANGED errors
               /\ job_i' = next
               /\ pc' = IF next > Len(MainJobs) THEN "done" ELSE "loop"
    /\ UNCHANGED <<op, upstream, page, H, start_s, end_s, end0, cur_start,
                   last_min_t, script, run, out1>>
    /\ UNCHANGED fundingVars

----------------------------------------------------------------------------
(* MexcWSRecorder *)

(* rec = MexcWSRecorder(SYMBOL, OUTDIR, run_seconds=..., depth_limit=...);  *)
(* rec.run()                                                                *)
MexcWSRecorder_run ==
    /\ pc = "idle"
    /\ op' = "MexcWSRecorder" /\ pc' = "run_forever"
    /\ \E a \in RecorderArgs :
         /\ run_seconds_arg' = a.run_seconds
         /\ run_seconds' = Max(MIN_RUN_SECONDS, a.run_seconds)
         /\ depth_limit' = a.depth_limit
         /\ outdir' = OutdirFor(a)
         /\ files' = [k \in SinkKeys |-> init_file(OutdirFor(a)[k])]
    /\ stop' = FALSE
    /\ ws_state' = "connecting"
    /\ session' = 1 /\ run_at' = clock
    /\ UNCHANGED <<clock, opened_at, ping, stopper, sent, received, msg, msg_raised,
                   old_ping, old_stopper>>
    /\ UNCHANGED wsHist
    /\ UNCHANGED restVars

(* the _stopper's wake-up as it would be if it slept one tick longer *)
deadline_late(now, rs) == now + rs + TickS

(* _stopper: time.sleep(self.run_seconds), started when _on_open runs *)
deadline(now, rs) == now + rs

(* the stopper as it would be if run() started it *)
timer_start_at_run(run_t, open_t) == run_t

(* threading.Thread(target=_stopper).start() is the last statement of       *)
(* _on_open: the sleep begins when the connection is open                   *)
timer_start(run_t, open_t) == open_t

(* _on_open: six subscribe messages, then the two threads are started *)
on_open ==
    /\ op = "MexcWSRecorder" /\ ws_state = "connecting"
    /\ (clock - run_at) \in OpenDelays
    /\ ws_state' = "open"
    /\ opened_at' = clock
    /\ sent' = sent \o Subscriptions
    /\ ping' = [state |-> "check", wake |-> clock]
    /\ stopper' = [state |-> "sleep",
                    due |-> deadline(timer_start(run_at, clock), run_seconds)]
    /\ UNCHANGED <<op, pc, stop, run_seconds_arg, run_seconds, depth_limit, clock,
                   files, received, msg, msg_raised, outdir>>
    /\ UNCHANGED wsHist
    /\ UNCHANGED restVars
    /\ UNCHANGED reuseVars

(* _ping_loop: `while not self._stop.is_set()` *)
ping_loop_check ==
    /\ ping.state = "check" /\ ping.wake <= clock
    /\ ping' = [ping EXCEPT !.state = IF stop THEN "exited" ELSE "send"]
    /\ UNCHANGED <<op, pc, ws_state, stop, run_seconds_arg, run_seconds,
                   depth_limit, clock, opened_at, stopper, sent, files, received,
                   msg, msg_raised, outdir>>
    /\ UNCHANGED wsHist
    /\ UNCHANGED restVars
    /\ UNCHANGED reuseVars

(* _ping_loop: try ws.send(ping) except pass; time.sleep(15) *)
ping_loop_send ==
    /\ ping.state = "send"
    /\ sent' = IF ws_state = "open" THEN Append(sent, Ping) ELSE sent
    /\ ping_after_stop' = (ping_after_stop \/ stop)
    /\ ping' = [state |-> "check", wake |-> clock + PING_SLEEP]
    /\ UNCHANGED <<op, pc, ws_state, stop, run_seconds_arg, run_seconds,
                   depth_limit, clock, opened_at, stopper, files, received, msg,
                   msg_raised, outdir,
                   closed_at, closed_by, stop_at, stop_by>>
    /\ UNCHANGED restVars
    /\ UNCHANGED reuseVars

(* the end of the connection as it would be if run_forever connected again *)
Closed_and_reconnect(by) ==
    /\ ws_state' = "connecting" /\ pc' = pc
    /\ closed_at' = clock /\ closed_by' = by

(* run_forever returns once the connection is gone *)
Closed(by) ==
    /\ ws_state' = "closed" /\ pc' = "done"
    /\ closed_at' = clock /\ closed_by' = by

(* self._stop.set() *)
stop_set(by) ==
    /\ stop' = TRUE
    /\ IF stop THEN UNCHANGED <<stop_at, stop_by>>
       ELSE stop_at' = clock /\ stop_by' = by

(* _stopper: time.sleep(self.run_seconds); self._stop.set() *)
stopper_fire ==
    /\ stopper.state = "sleep" /\ stopper.due <= clock
    /\ stopper' = [stopper EXCEPT !.state = "close"]
    /\ stop_set("stopper")
    /\ UNCHANGED <<op, pc, ws_state, run_seconds_arg, run_seconds, depth_limit,
                   clock, opened_at, ping, sent, files, received, msg, msg_raised,
                   outdir, closed_at, closed_by, ping_after_stop>>
    /\ UNCHANGED restVars
    /\ UNCHANGED reuseVars

(* _stopper: try ws.close() except pass *)
stopper_close ==
    /\ stopper.state = "close"
    /\ stopper' = [stopper EXCEPT !.state = "done"]
    /\ IF ws_state = "open" THEN Closed("stopper")
       ELSE UNCHANGED <<ws_state, pc, closed_at, closed_by>>
    /\ UNCHANGED <<op, stop, run_seconds_arg, run_seconds, depth_limit, clock,
                   opened_at, ping, sent, files, received, msg, msg_raised, outdir,
                   stop_at, stop_by, ping_after_stop>>
    /\ UNCHANGED restVars
    /\ UNCHANGED reuseVars

(* _on_close: the connection ended; self._stop.set() *)
on_close ==
    /\ op = "MexcWSRecorder" /\ ws_state \in {"connecting", "open"}
    /\ stop_set("on_close")
    /\ Closed("on_close")
    /\ UNCHANGED <<op, run_seconds_arg, run_seconds, depth_limit, clock, opened_at,
                   ping, stopper, sent, files, received, msg, msg_raised, outdir,
                   ping_after_stop>>
    /\ UNCHANGED restVars
    /\ UNCHANGED reuseVars

(* the stop flag set by another thread of the process: rec._stop.set() *)
external_stop ==
    /\ op = "MexcWSRecorder" /\ ws_state = "open" /\ ~stop
    /\ clock \in StopSignalTimes
    /\ stop_set("external")
    /\ UNCHANGED <<op, pc, ws_state, run_seconds_arg, run_seconds, depth_limit,
                   clock, opened_at, ping, stopper, sent, files, received, msg,
                   msg_raised, outdir,
                   closed_at, closed_by, ping_after_stop>>
    /\ UNCHANGED restVars
    /\ UNCHANGED reuseVars

(* the dispatch as it would be with a catch-all branch writing to the deal *)
(* file                                                                     *)
writes_unknown_to_deal(k, m) ==
    /\ m.json
    /\ \/ m.channel = Channels[k]
       \/ k = "deal" /\ \A j \in SinkKeys : m.channel # Channels[j]

(* the dispatch as it would be if text that json.loads rejects were written *)
(* to the deal file                                                         *)
writes_undecoded(k, m) ==
    IF m.json
    THEN m.channel = Channels[k] /\ (k # "ticker" => m.data = "object")
    ELSE k = "deal"

(* _on_message: which file gets a line.  The ticker branch reads            *)
(* `d = data or {}`; the other branches call data.get, which raises when    *)
(* data is null, before the file is opened                                  *)
writes(k, m) ==
    /\ m.json
    /\ m.channel = Channels[k]
    /\ (k # "ticker" => m.data = "object")

(* data.get(...) on a null data member: AttributeError out of _on_message *)
raises(m) ==
    /\ m.json
    /\ m.data = "null"
    /\ \E k \in SinkKeys \ {"ticker"} : m.channel = Channels[k]

on_message ==
    /\ op = "MexcWSRecorder" /\ ws_state = "open"
    /\ session = 1 /\ received < MaxMsgs
    /\ received' = received + 1
    /\ \E m \in Messages :
        /\ msg' = m
        /\ msg_raised' = raises(m)
        /\ files' = [k \in SinkKeys |->
                       IF writes(k, m) THEN Append(files[k], m.channel)
                       ELSE files[k]]
    /\ UNCHANGED <<op, pc, ws_state, stop, run_seconds_arg, run_seconds,
                   depth_limit, clock, opened_at, ping, stopper, sent, outdir>>
    /\ UNCHANGED wsHist
    /\ UNCHANGED restVars
    /\ UNCHANGED reuseVars

(* rec.run() called again on the same recorder, as soon as the earlier     *)
(* call returned: self._stop.clear(), a new WebSocketApp.  The threads the  *)
(* earlier _on_open started are still there, holding the earlier socket.    *)
run_again ==
    /\ op = "MexcWSRecorder" /\ pc = "done" /\ session = 1
    /\ closed_by = "on_close" /\ clock = closed_at /\ received = 0
    /\ session' = 2 /\ run_at' = clock
    /\ pc' = "run_forever" /\ ws_state' = "connecting"
    /\ stop' = FALSE /\ stop_at' = None /\ stop_by' = "none"
    /\ old_ping' = ping /\ old_stopper' = stopper
    /\ ping' = [state |-> "none", wake |-> 0]
    /\ stopper' = [state |-> "none", due |-> 0]
    /\ sent' = << >> /\ opened_at' = None
    /\ closed_at' = None /\ closed_by' = "none"
    /\ UNCHANGED <<op, run_seconds_arg, run_seconds, depth_limit, clock, files,
                   received, msg, msg_raised, outdir, ping_after_stop>>
    /\ UNCHANGED restVars

(* the earlier _ping_loop wakes up: `while not self._stop.is_set()` reads   *)
(* the one Event of the recorder                                            *)
old_ping_loop_check ==
    /\ old_ping.state = "check" /\ old_ping.wake <= clock
    /\ old_ping' = [old_ping EXCEPT !.state = IF stop THEN "exited" ELSE "send"]
    /\ UNCHANGED <<session, run_at, old_stopper>>
    /\ UNCHANGED <<op, pc, ws_state, stop, run_seconds_arg, run_seconds,
                   depth_limit, clock, opened_at, ping, stopper, sent, files,
                   received, msg, msg_raised, outdir>>
    /\ UNCHANGED wsHist
    /\ UNCHANGED restVars

(* the earlier _ping_loop: ws.send on the earlier socket, which is closed,  *)
(* raises; except: pass; time.sleep(15)                                     *)
old_ping_loop_send ==
    /\ old_ping.state = "send"
    /\ old_ping' = [state |-> "check", wake |-> clock + PING_SLEEP]
    /\ UNCHANGED <<session, run_at, old_stopper>>
    /\ UNCHANGED <<op, pc, ws_state, stop, run_seconds_arg, run_seconds,
                   depth_limit, clock, opened_at, ping, stopper, sent, files,
                   received, msg, msg_raised, outdir>>
    /\ UNCHANGED wsHist
    /\ UNCHANGED restVars

(* the earlier _stopper: self._stop.set(), then ws.close() on the earlier   *)
(* socket, which is closed already                                          *)
old_stopper_fire ==
    /\ old_stopper.state = "sleep" /\ old_stopper.due <= clock
    /\ old_stopper' = [old_stopper EXCEPT !.state = "done"]
    /\ stop_set("old_stopper")
    /\ UNCHANGED <<session, run_at, old_ping>>
    /\ UNCHANGED <<op, pc, ws_state, run_seconds_arg, run_seconds, depth_limit,
                   clock, opened_at, ping, stopper, sent, files, received, msg,
                   msg_raised, outdir, closed_at, closed_by, ping_after_stop>>
    /\ UNCHANGED restVars

(* time passes, unless a thread's sleep has ended *)
Tick ==
    /\ op = "MexcWSRecorder"
    /\ clock + TickS <= MaxClock
    /\ ~(ping.state = "check" /\ ping.wake <= clock)
    /\ ping.state # "send"
    /\ ~(stopper.state = "sleep" /\ stopper.due <= clock)
    /\ stopper.state # "close"
    /\ ~(old_ping.state = "check" /\ old_ping.wake <= clock)
    /\ old_ping.state # "send"
    /\ ~(old_stopper.state = "sleep" /\ old_stopper.due <= clock)
    /\ clock' = clock + TickS
    /\ UNCHANGED <<op, pc, ws_state, stop, run_seconds_arg, run_seconds,
                   depth_limit, opened_at, ping, stopper, sent, files, received,
                   msg, msg_raised, outdir>>
    /\ UNCHANGED wsHist
    /\ UNCHANGED restVars
    /\ UNCHANGED reuseVars

----------------------------------------------------------------------------

Next ==
    \/ call_fetch_kline_full_history
    \/ call_fetch_index_kline_full
    \/ call_fetch_fair_kline_full
    \/ fetch_kline_full_history
    \/ fetch_index_kline_full
    \/ fetch_fair_kline_full
    \/ call_again
    \/ call_fetch_kline_range
    \/ fetch_kline_range
    \/ call_get_funding_history
    \/ get_funding_history
    \/ call_req_get
    \/ main_index_fair
    \/ get_index_price
    \/ get_fair_price
    \/ call_kline_payload_to_df
    \/ main_backfills
    \/ main_funding
    \/ main_backfill_job
    \/ MexcWSRecorder_run
    \/ on_open
    \/ ping_loop_check
    \/ ping_loop_send
    \/ stopper_fire
    \/ stopper_close
    \/ on_close
    \/ external_stop
    \/ run_again
    \/ old_ping_loop_check
    \/ old_ping_loop_send
    \/ old_stopper_fire
    \/ on_message
    \/ Tick

Spec == Init /\ [][Next]_vars

----------------------------------------------------------------------------
(* Properties *)

StrictlyAscending(df) ==
    \A i \in 1..(Len(df) - 1) : df[i].t < df[i + 1].t

NoDuplicateKeys(df) ==
    \A i, j \in 1..Len(df) : i # j => Key(df[i]) # Key(df[j])

KlineOps == {"fetch_kline_full_history", "fetch_kline_range"}

Accumulated == concat(all_df)

(* every page so far was full and had the same earliest timestamp *)
Stuck ==
    /\ all_df # << >>
    /\ \A i \in 1..Len(all_df) :
          Len(all_df[i]) = KLINE_MAX /\ min_t(all_df[i]) = min_t(all_df[1])

(* C1: a backward paginator whose upstream keeps answering full pages with   *)
(* the same earliest timestamp issues at most two requests: the second page  *)
(* fires the loop-termination guard and the call returns.  Holds for         *)
(* fetch_kline_full_history, fetch_index_kline_full, fetch_fair_kline_full.  *)
C1_StuckUpstreamTerminates ==
    (op \in Backward /\ Stuck) =>
        /\ Len(reqs) <= 2
        /\ Len(all_df) <= 2
        /\ (Len(all_df) = 2 => pc = "done")

C1_Witness ==
    /\ op = "fetch_index_kline_full" /\ upstream = "repeat"
    /\ Stuck /\ Len(all_df) = 2 /\ Len(reqs) = 2 /\ pc = "done"

(* C2: the sequence returned by fetch_kline_full_history and by             *)
(* fetch_kline_range is strictly ascending by t and has no two rows with    *)
(* the same (t, interval), whatever pages the upstream answered.            *)
C2_ResultAscendingUnique ==
    (op \in KlineOps /\ pc = "done") =>
        StrictlyAscending(out) /\ NoDuplicateKeys(out)

C2_Witness ==
    /\ op \in KlineOps /\ pc = "done" /\ upstream = "any"
    /\ ~NoDuplicateKeys(Accumulated)
    /\ ~StrictlyAscending(Accumulated)
    /\ Len(out) >= 2

(* C3: in full-history mode a non-empty page with fewer than KLINE_MAX rows  *)
(* is the last one: it is part of the result, the call has returned and no  *)
(* request was issued after the one that fetched it.                        *)
C3_ShortPageStops ==
    op \in Backward =>
        \A i \in 1..Len(all_df) :
            Len(all_df[i]) < KLINE_MAX =>
                /\ i = Len(all_df)
                /\ pc = "done"
                /\ Len(reqs) = i
                /\ \A k \in 1..Len(all_df[i]) :
                      \E j \in 1..Len(out) : Key(out[j]) = Key(all_df[i][k])

C3_Witness ==
    /\ op = "fetch_kline_full_history" /\ pc = "done"
    /\ Len(all_df) = 2 /\ Len(reqs) = 2
    /\ Len(all_df[2]) > 0 /\ Len(all_df[2]) < KLINE_MAX

(* C4: against a well-behaved upstream holding the candles H, full-history  *)
(* backfill started at end0 returns exactly the candles of H with t <= end0,*)
(* each once, oldest first.                                                 *)
HistoryUpTo(e) ==
    LET tm == SeqOfSet({t \in TS : H[t] # Null /\ t <= e})
    IN [i \in 1..Len(tm) |-> [t |-> tm[i], interval |-> interval, open |-> H[tm[i]]]]

C4_Gapless ==
    (upstream = "honest" /\ op = "fetch_kline_full_history" /\ pc = "done") =>
        /\ Len(out) = Len(HistoryUpTo(end0))
        /\ \A i \in 1..Len(out) : out[i] = HistoryUpTo(end0)[i]

C4_Witness ==
    /\ upstream = "honest" /\ op = "fetch_kline_full_history" /\ pc = "done"
    /\ Len(out) >= 2 * KLINE_MAX /\ Len(out) % KLINE_MAX = 0
    /\ Len(reqs) = (Len(out) \div KLINE_MAX) + 1

(* C5 as claimed: of several accumulated rows with the same key, the result *)
(* keeps the one accumulated last.                                          *)
OnePerKey ==
    \A i \in 1..Len(Accumulated) :
        Cardinality({j \in 1..Len(out) : Key(out[j]) = Key(Accumulated[i])}) = 1

FirstIndex(df, k) == SetMin({i \in 1..Len(df) : Key(df[i]) = k})
LastIndex(df, k) == SetMax({i \in 1..Len(df) : Key(df[i]) = k})

C5_LastSeenWins ==
    (op \in KlineOps /\ pc = "done") =>
        /\ OnePerKey
        /\ \A j \in 1..Len(out) :
              out[j] = Accumulated[LastIndex(Accumulated, Key(out[j]))]

(* C5: of several accumulated rows with the same (t, interval) key, the     *)
(* result keeps exactly one, the one accumulated first; a later row with    *)
(* the same key is dropped, neither appended nor replacing the earlier one. *)
C5_FirstSeenWins ==
    (op \in KlineOps /\ pc = "done") =>
        /\ OnePerKey
        /\ \A j \in 1..Len(out) :
              out[j] = Accumulated[FirstIndex(Accumulated, Key(out[j]))]

C5_Witness ==
    /\ op \in KlineOps /\ pc = "done"
    /\ \E i, j \in 1..Len(Accumulated) :
          /\ i < j
          /\ Key(Accumulated[i]) = Key(Accumulated[j])
          /\ Accumulated[i] # Accumulated[j]
          /\ \E k \in 1..Len(out) : out[k] = Accumulated[i]

(* C6: the sequences returned by fetch_index_kline_full and                 *)
(* fetch_fair_kline_full are strictly ascending by t with no duplicate key. *)
C6_IndexFairAscendingUnique ==
    (op \in {"fetch_index_kline_full", "fetch_fair_kline_full"} /\ pc = "done") =>
        StrictlyAscending(out) /\ NoDuplicateKeys(out)

(* C7: running full-history backfill twice against the same deterministic   *)
(* upstream and merging the two results by key gives the records of one     *)
(* run, in ascending order and without duplicate keys.                      *)
MergedByKey(a, b) ==
    LET both == a \o b
        tm == SeqOfSet({both[i].t : i \in 1..Len(both)})
    IN [k \in 1..Len(tm) |->
          both[SetMin({i \in 1..Len(both) : both[i].t = tm[k]})]]

C7_Idempotent ==
    (op = "fetch_kline_full_history" /\ run = 2 /\ pc = "done") =>
        LET merged == MergedByKey(out1, out)
        IN  /\ Len(merged) = Len(out1)
            /\ \A i \in 1..Len(merged) : merged[i] = out1[i]
            /\ StrictlyAscending(merged) /\ NoDuplicateKeys(merged)

C7_Witness ==
    /\ op = "fetch_kline_full_history" /\ run = 2 /\ pc = "done"
    /\ Len(reqs) >= 2 /\ Len(out) >= 2
    /\ ~NoDuplicateKeys(Accumulated)

(* C8: nothing runs without a bound.  A backward backfill issues at most    *)
(* one request per timestamp at or above the earliest one it has reached    *)
(* (so at most one more than there are timestamps), whatever the upstream   *)
(* answers; a req_get call makes at most 5 attempts; an open stream session *)
(* never outlives its deadline opened_at + run_seconds.                     *)
C8_NothingUnbounded ==
    /\ op \in Backward =>
          /\ Len(reqs) <= Cardinality(TS) + 1
          /\ (pc = "loop" /\ last_min_t # None) =>
                Len(reqs) <= Cardinality({t \in TS : t >= last_min_t})
    /\ attempts <= 5
    /\ ws_state = "open" => clock <= opened_at + run_seconds
    /\ stopper.state = "done" => ws_state # "open"

C8_Witness ==
    /\ op \in Backward /\ upstream = "any" /\ pc = "done"
    /\ Len(reqs) >= 3 /\ Len(all_df) >= 3
    /\ \A i \in 1..(Len(all_df) - 1) :
          Len(all_df[i]) = KLINE_MAX /\ min_t(all_df[i + 1]) < min_t(all_df[i])

(* C9: a req_get call makes at most 5 attempts; it returns the payload of   *)
(* the first successful attempt and makes no attempt after it; when all 5   *)
(* attempts fail it raises.                                                 *)
C9_AtMostFiveAttempts ==
    (op = "req_get" /\ pc # "idle") =>
        LET oks == {i \in 1..5 : script[i].ok}
        IN  /\ attempts <= 5
            /\ IF oks # {}
               THEN /\ pc = "done"
                    /\ attempts = SetMin(oks)
                    /\ ret = unwrap(script[SetMin(oks)].json)
               ELSE /\ pc = "failed"
                    /\ attempts = 5

C9_Witness ==
    /\ op = "req_get" /\ pc = "failed" /\ attempts = 5
    /\ \A i \in 1..5 : ~script[i].ok

(* C10: between any two consecutive outbound requests made through req_get  *)
(* at least REQ_SLEEP elapses.                                              *)
C10_MinSpacing ==
    min_gap = None \/ min_gap >= REQ_SLEEP


(* C11: req_get returns the inner `data` of a response object that has a    *)
(* "data" key together with a "success" or a "code" key, and returns every  *)
(* other JSON value as it came: a bare array, a bare object, an object with *)
(* "data" but neither "success" nor "code", an object with "success" but no *)
(* "data".                                                                  *)
IsEnvelope(j) ==
    /\ j.tag = "dict"
    /\ "data" \in j.keys
    /\ ("success" \in j.keys \/ "code" \in j.keys)

C11_UnwrapsEnvelopeOnly ==
    (op = "req_get" /\ pc = "done") =>
        LET j == script[attempts].json
        IN  IF IsEnvelope(j) THEN ret = j.data ELSE ret = j

C11_Witness ==
    /\ op = "req_get" /\ pc = "done" /\ attempts = 2
    /\ script[2].json = Envelope({}, JList)
    /\ ret = Envelope({}, JList)

(* C12: fetch_kline_range over [start_s, end_s] requests windows of which   *)
(* the first starts at start_s, each next one starts one second after the   *)
(* end of the previous one, each holds at most INTERVAL_SECONDS * KLINE_MAX *)
(* seconds and lies inside [start_s, end_s]; the loop goes on while         *)
(* cur_start <= end_s and has ended exactly when cur_start > end_s, the     *)
(* last window then ending at end_s, so that every second of                *)
(* [start_s, end_s] lies in exactly one window.                             *)
RangeStep == INTERVAL_SECONDS(interval) * KLINE_MAX

C12_WindowsPartitionRange ==
    op = "fetch_kline_range" =>
        /\ reqs # << >> => reqs[1].start = start_s
        /\ \A i \in 1..(Len(reqs) - 1) : reqs[i + 1].start = reqs[i].end + 1
        /\ \A i \in 1..Len(reqs) :
              /\ start_s <= reqs[i].start /\ reqs[i].start <= reqs[i].end
              /\ reqs[i].end <= end_s
              /\ reqs[i].end - reqs[i].start + 1 <= RangeStep
        /\ pc = "loop" => cur_start <= end_s
        /\ pc = "done" =>
              /\ cur_start > end_s
              /\ reqs # << >> => reqs[Len(reqs)].end = end_s
              /\ \A t \in start_s..end_s :
                    Cardinality({i \in 1..Len(reqs) :
                                   reqs[i].start <= t /\ t <= reqs[i].end}) = 1

C12_Witness ==
    /\ op = "fetch_kline_range" /\ pc = "done"
    /\ Len(reqs) = 3 /\ reqs[1].start = start_s /\ reqs[3].end = end_s
    /\ reqs[2].end - reqs[2].start + 1 = RangeStep
    /\ reqs[3].end - reqs[3].start + 1 < RangeStep

(* C13: against an upstream that reports totalPage = N >= 1 on every page,  *)
(* get_funding_history requests the pages 1, 2, ... in this order, never a  *)
(* page above N, goes on while it has requested fewer than N and has        *)
(* returned once it has requested exactly N.                                *)
C13_ExactlyNPages ==
    (op = "get_funding_history" /\ upstream = "honest" /\ totalPage >= 1) =>
        /\ \A i \in 1..Len(reqs) : reqs[i].page_num = i
        /\ Len(reqs) <= totalPage
        /\ pc = "loop" => Len(reqs) < totalPage /\ page_num = Len(reqs) + 1
        /\ pc = "done" => Len(reqs) = totalPage /\ Len(out) = totalPage

C13_Witness ==
    /\ op = "get_funding_history" /\ upstream = "honest" /\ pc = "done"
    /\ totalPage = 3 /\ Len(reqs) = 3 /\ reqs[3].page_num = 3

(* C14: get_funding_history never issues more page requests than the        *)
(* totalPage it read on page 1, plus one, whatever totalPage the later      *)
(* pages report.                                                            *)
C14_CappedByFirstTotal ==
    (op = "get_funding_history" /\ total_page_1 # None) =>
        Len(reqs) <= total_page_1 + 1

(* C15 as claimed: with the run duration R given to the recorder and a      *)
(* connection that opens and is not closed by the other side, the stopper   *)
(* fires R after the open, the connection is closed and run() has returned  *)
(* between R and R + 1 seconds after the open, and a ping was sent before.  *)
(* (No other thread sets the stop flag in this scenario.)                   *)
PingSent == \E i \in 1..Len(sent) : sent[i] = Ping

TimerClosedAfter(R) ==
    /\ (ws_state = "open" /\ closed_by = "none") => clock <= opened_at + R
    /\ stop_by = "stopper" => stop_at = opened_at + R
    /\ (closed_by = "stopper" /\ stop_by = "stopper") =>
          /\ ws_state = "closed" /\ pc = "done"
          /\ closed_at >= opened_at + R /\ closed_at <= opened_at + R + 1
          /\ PingSent

C15_ClosesAfterConfigured == TimerClosedAfter(run_seconds_arg)

(* C15: with R = max(10, run duration given to the recorder) and a          *)
(* connection that opens and is not closed by the other side, the stopper   *)
(* fires R after the open, the connection is closed and run() has returned  *)
(* between R and R + 1 seconds after the open, and a ping was sent before.  *)
C15_ClosesAfterEffective == TimerClosedAfter(Max(10, run_seconds_arg))

C15_Witness ==
    /\ closed_by = "stopper" /\ stop_by = "stopper" /\ pc = "done"
    /\ run_seconds_arg = 5 /\ opened_at = 5 /\ closed_at = 15
    /\ PingSent

(* C16: once _on_open has run, the socket has been sent exactly one         *)
(* subscribe message for each of sub.deal, sub.ticker, sub.depth.full (with *)
(* the recorder's depth_limit), sub.index.price, sub.fair.price and         *)
(* sub.funding.rate, these six first, and the ping loop and the stopper are *)
(* started, whether or not any message has come in.                         *)
SubMethods ==
    {"sub.deal", "sub.ticker", "sub.depth.full", "sub.index.price",
     "sub.fair.price", "sub.funding.rate"}

C16_SixSubscriptions ==
    opened_at # None =>
        /\ Len(sent) >= 6
        /\ \A m \in SubMethods :
              Cardinality({i \in 1..Len(sent) : sent[i].method = m}) = 1
        /\ \A i \in 1..6 :
              /\ sent[i].method \in SubMethods
              /\ sent[i].limit =
                    IF sent[i].method = "sub.depth.full" THEN depth_limit ELSE None
        /\ ping.state # "none" /\ stopper.state # "none"

C16_Witness ==
    /\ ws_state = "open" /\ received = 0 /\ clock = opened_at
    /\ Len(sent) = 6 /\ depth_limit = 5
    /\ ping.state = "check" /\ stopper.state = "sleep"

(* C17: the ping loop never calls ws.send after the stop flag was set.      *)
C17_NoPingAfterStop == ~ping_after_stop

(* C18: whichever comes first, the stopper firing or the connection         *)
(* reporting its end, the other activities stop: the ping loop has exited   *)
(* one PING_SLEEP later, and after an end reported by the connection the    *)
(* stopper does not fire any more.                                          *)
C18_FirstStopsOthers ==
    /\ (stop_by \in {"stopper", "on_close"} /\ clock > stop_at + PING_SLEEP) =>
          ping.state \in {"none", "exited"}
    /\ closed_by = "stopper" => ws_state = "closed"
    /\ closed_by = "on_close" => stopper.state # "done"

(* C19: one PING_SLEEP after the stop flag was set from outside on an open  *)
(* session, the connection is closed, the ping loop has exited and the      *)
(* stopper sleeps no more.                                                  *)
C19_ExternalStopHonoured ==
    (stop_by = "external" /\ clock > stop_at + PING_SLEEP) =>
        /\ ws_state = "closed"
        /\ ping.state = "exited"
        /\ stopper.state # "sleep"

(* C20: handling a message that json.loads accepts and whose channel is one *)
(* of the six recognized tags appends exactly one line to the file of that  *)
(* channel and leaves the other five files as they were.                    *)
C20_OneLineToOneSink ==
    [][ (received' = received + 1 /\ msg'.json
            /\ \E k \in SinkKeys : Channels[k] = msg'.channel) =>
          \E k \in SinkKeys :
            /\ Channels[k] = msg'.channel
            /\ Len(files'[k]) = Len(files[k]) + 1
            /\ SubSeq(files'[k], 1, Len(files[k])) = files[k]
            /\ \A j \in SinkKeys \ {k} : files'[j] = files[j] ]_vars

(* C21: handling a message whose channel is none of the six recognized tags *)
(* (unknown, absent or null), whatever its data member, raises nothing,     *)
(* leaves every file as it was and changes nothing of the session: the      *)
(* connection, the stop flag, the two threads and what was sent.            *)
Recognized(m) == \E k \in SinkKeys : Channels[k] = m.channel

C21_UnknownChannelDropped ==
    [][ (received' = received + 1 /\ msg'.json /\ ~Recognized(msg')) =>
          /\ ~msg_raised'
          /\ files' = files
          /\ ws_state' = ws_state /\ pc' = pc /\ stop' = stop
          /\ ping' = ping /\ stopper' = stopper /\ sent' = sent ]_vars

C21_Witness ==
    /\ ws_state = "open" /\ received = 1
    /\ msg = [json |-> TRUE, channel |-> "push.other", data |-> "null"]
    /\ ~msg_raised
    /\ \A k \in SinkKeys : files[k] = <<"header">>

(* C22: handling a message that json.loads rejects raises nothing, appends  *)
(* nothing to any file and leaves the connection open and run() running;    *)
(* the message handled next, when it has a recognized channel and a data    *)
(* object, gets its line appended to the file of its channel.               *)
C22_MalformedDropped ==
    [][ /\ (received' = received + 1 /\ ~msg'.json) =>
              /\ ~msg_raised'
              /\ files' = files
              /\ ws_state' = ws_state /\ pc' = pc /\ stop' = stop
        /\ (received' = received + 1 /\ received >= 1 /\ ~msg.json
              /\ msg'.json /\ Recognized(msg') /\ msg'.data = "object") =>
              \E k \in SinkKeys :
                 /\ Channels[k] = msg'.channel
                 /\ files'[k] = Append(files[k], msg'.channel) ]_vars

C22_Witness ==
    /\ ws_state = "open" /\ pc = "run_forever" /\ received = 1
    /\ ~msg.json /\ ~msg_raised
    /\ \A k \in SinkKeys : files[k] = <<"header">>

(* C23: one run() opens one connection.  Once that connection has ended,    *)
(* by the stopper's close, by the other side or by a failure to connect, it *)
(* stays closed and run() has returned; no subscribe message is ever sent a *)
(* second time.                                                             *)
C23_NoReconnect ==
    /\ closed_by # "none" => (ws_state = "closed" /\ pc = "done")
    /\ \A m \in SubMethods :
          Cardinality({i \in 1..Len(sent) : sent[i].method = m}) <= 1

C23_Witness ==
    /\ closed_by = "on_close" /\ opened_at # None
    /\ clock >= closed_at + PING_SLEEP
    /\ ws_state = "closed" /\ pc = "done"
    /\ Len(sent) = 6

(* C24: a stream file that did not exist when the recorder was constructed  *)
(* starts with the header line and has no other header line; one that       *)
(* existed keeps the lines it had as a prefix and gets no header line; and  *)
(* every step of the session leaves each file's content as a prefix of the  *)
(* new content, longer by at most one line.                                 *)
IsPrefix(a, b) == Len(a) <= Len(b) /\ SubSeq(b, 1, Len(a)) = a

Headers(lines) == Cardinality({i \in 1..Len(lines) : lines[i] = "header"})

C24_AppendOnly ==
    [][ /\ op = "MexcWSRecorder" =>
              \A k \in SinkKeys :
                 /\ IsPrefix(files[k], files'[k])
                 /\ Len(files'[k]) <= Len(files[k]) + 1
        /\ op' = "MexcWSRecorder" =>
              \A k \in SinkKeys :
                 IF outdir'[k].exists
                 THEN /\ IsPrefix(outdir'[k].lines, files'[k])
                      /\ Headers(files'[k]) = Headers(outdir'[k].lines)
                 ELSE /\ files'[k][1] = "header"
                      /\ Headers(files'[k]) = 1 ]_vars

C24_Witness ==
    /\ op = "MexcWSRecorder" /\ outdir = OldOutdir
    /\ files["deal"] = <<"header", "push.deal", "push.deal">>
    /\ files["index"] = <<"header">>
    /\ received = 1

(* C26: once the stopper or _on_close has set the stop flag, or the         *)
(* connection is closed, no step appends a line to any stream file.         *)
C26_NoRecordAfterClosing ==
    [][ (stop_by \in {"stopper", "on_close"} \/ ws_state = "closed") =>
          files' = files ]_vars

(* C25: in main()'s backfill loops a try block whose fetch raises records   *)
(* the failure and nothing else: the loop goes on with the next job, until  *)
(* every job has had its turn, and what save_csv wrote for the other jobs   *)
(* stays as it is.                                                          *)
C25_FailureIsolated ==
    [][ (op = "main_backfills" /\ pc = "loop") =>
          /\ job_i' = job_i + 1
          /\ pc' = (IF job_i = Len(MainJobs) THEN "done" ELSE "loop")
          /\ \A j \in 1..Len(MainJobs) : j # job_i => csv'[j] = csv[j]
          /\ job_i \in errors' => csv'[job_i] = csv[job_i] ]_vars

C25_Witness ==
    /\ op = "main_backfills" /\ pc = "done"
    /\ errors = {1, 3}
    /\ csv[2].saved /\ csv[4].saved
    /\ ~csv[1].saved /\ ~csv[3].saved

(* C27: a payload that is not an object, has no "time" or an empty "time"   *)
(* decodes to no candle; any other payload decodes to one candle per entry  *)
(* of "time", in that order, with the entry as its open time, the interval  *)
(* it was asked for, and the value of the same position of "open", or the   *)
(* null placeholder in every row when "open" is absent.                     *)
NoCandles(p) == p.tag # "dict" \/ "time" \notin p.keys \/ p.time = << >>

C27_OneCandlePerTime ==
    (op = "kline_payload_to_df" /\ pc = "done") =>
        IF NoCandles(payload) THEN out = << >>
        ELSE /\ Len(out) = Len(payload.time)
             /\ \A i \in 1..Len(out) :
                  /\ out[i].t = payload.time[i]
                  /\ out[i].interval = interval
                  /\ out[i].open = (IF "open" \in payload.keys
                                    THEN payload.open[i] ELSE Null)

C27_Witness ==
    /\ op = "kline_payload_to_df" /\ pc = "done"
    /\ payload = [tag |-> "dict", keys |-> {"time"}, time |-> <<0, 60>>]
    /\ Len(out) = 2 /\ out[1].open = Null /\ out[2].open = Null

(* C28: inside one paginated backfill (full history, forward range, funding *)
(* history) any two consecutive requests are at least REQ_SLEEP apart: the  *)
(* retries of one page by their back-off, two pages by the sleep that ends  *)
(* the iteration.                                                           *)
PagedBackfills == Backward \cup {"fetch_kline_range", "get_funding_history"}

C28_BackfillPacing ==
    op \in PagedBackfills => (min_gap = None \/ min_gap >= REQ_SLEEP)

C28_Witness ==
    /\ op = "get_funding_history" /\ pc = "done"
    /\ Len(reqs) = 3 /\ attempts = 1 /\ min_gap = REQ_SLEEP

(* C29 as claimed: what get_funding_history returns has no two records with *)
(* the same settle time (all records are of the one symbol asked for),      *)
(* whatever pages the exchange answers with.                                *)
C29_UniqueSettleTime ==
    (op = "get_funding_history" /\ pc = "done") =>
        \A i, j \in 1..Len(out) :
            out[i].settleTime = out[j].settleTime => i = j

(* C30: in the full-history backfills a request answered with a page that   *)
(* holds no candle ends the loop: the call has returned, the empty page was *)
(* the last request, and the result holds the rows accumulated before it    *)
(* and no other (none at all when the first page was the empty one).  The   *)
(* call fails only when a request used up its attempts.                     *)
Rows(df) == {df[i] : i \in 1..Len(df)}

C30_EmptyPageEndsBackfill ==
    op \in Backward =>
        /\ pc = "failed" => attempts = RETRIES
        /\ (Len(reqs) >= 1 /\ pc # "failed" /\ NoCandles(ret)) =>
              /\ pc = "done"
              /\ Len(all_df) = Len(reqs) - 1
              /\ Rows(out) \subseteq Rows(Accumulated)
              /\ {Key(x) : x \in Rows(out)} = {Key(x) : x \in Rows(Accumulated)}
              /\ op # "fetch_kline_full_history" => out = Accumulated
              /\ Len(reqs) = 1 => out = << >>

C30_Witness ==
    /\ op = "fetch_kline_full_history" /\ pc = "done" /\ upstream = "any"
    /\ Len(reqs) = 3 /\ Len(all_df) = 2 /\ attempts = 1
    /\ ret = KlineDict(<< >>, << >>)
    /\ Len(out) = 2 * KLINE_MAX

(* C31 as claimed: a backward backfill whose request was answered with an   *)
(* error envelope (success = false, no candle arrays) ends as failed, not   *)
(* as a backfill that reached the end of the history.                       *)
C31_ErrorEnvelopeIsFailure ==
    (op \in Backward /\ Len(reqs) >= 1 /\ ret = ErrorEnvelope) => pc = "failed"

(* C32: in a backward backfill every request after the first carries as     *)
(* `end` the earliest timestamp of the page before it, minus 1 (that page   *)
(* was full and did not fire the guard, or no request would have followed); *)
(* against an upstream that honours `end` every candle of a page is older   *)
(* than every candle of the page before it.                                 *)
C32_CursorStep ==
    op \in Backward =>
        /\ \A i \in 2..Len(reqs) :
              /\ Len(all_df[i - 1]) = KLINE_MAX
              /\ reqs[i].end = min_t(all_df[i - 1]) - 1
        /\ upstream = "honest" =>
              \A i \in 2..Len(all_df) : \A k \in 1..Len(all_df[i]) :
                  all_df[i][k].t < min_t(all_df[i - 1])

C32_Witness ==
    /\ op = "fetch_kline_full_history" /\ upstream = "honest" /\ pc = "done"
    /\ Len(reqs) = 3 /\ Len(all_df) = 2
    /\ reqs[2].end = min_t(all_df[1]) - 1
    /\ reqs[3].end = min_t(all_df[2]) - 1
    /\ reqs[3].end < reqs[2].end

(* C33 as claimed: in one backward backfill call the earliest timestamps of *)
(* the pages that were followed by a further request are strictly           *)
(* decreasing, and every request after the first carries an `end` strictly  *)
(* smaller than the request before it, whatever the upstream answers.       *)
C33_CursorMonotone ==
    op \in Backward =>
        /\ \A i \in 2..Len(reqs) : \A j \in 1..(i - 2) :
              min_t(all_df[i - 1]) < min_t(all_df[j])
        /\ \A i \in 2..Len(reqs) : reqs[i].end < reqs[i - 1].end

(* C34: when a request of a job's backfill uses up its attempts, also after *)
(* earlier pages of the same job were fetched, the job ends in main()'s     *)
(* except branch: the failure is recorded, nothing is returned and no file  *)
(* is written or changed.  A job whose failure was recorded has no file.    *)
C34_AllOrNothing ==
    [][ (op = "main_backfills" /\ pc = "loop" /\ attempts' = RETRIES) =>
          /\ job_i \in errors'
          /\ csv' = csv
          /\ out' = out ]_vars

C34_Witness ==
    /\ op = "main_backfills" /\ job_i = 3 /\ errors = {2}
    /\ attempts = RETRIES /\ Len(all_df) = 1 /\ Len(all_df[1]) = KLINE_MAX
    /\ csv[1].saved /\ csv[2] = NotSaved

(* C35 as claimed: while the connection is open, the session's own stopper  *)
(* still sleeps and nobody outside the recorder set the stop flag, the      *)
(* session's ping loop has not exited; also in a session started by calling *)
(* run() again on the recorder.                                             *)
C35_HeartbeatWhileActive ==
    (ws_state = "open" /\ stopper.state = "sleep" /\ stop_by # "external") =>
        ping.state # "exited"

(* C36 as claimed: a ping loop whose session is closed does not pass its    *)
(* loop test again while the ping loop of a later session is alive: there   *)
(* are never two ping loops at work.                                        *)
C36_SingleEmitter ==
    ~(old_ping.state = "send" /\ ping.state \in {"check", "send"})

(* C37: nothing is sent and no thread exists before the connection is open; *)
(* the first six messages of a session are the subscribe messages, so every *)
(* ping comes after them; the stopper's wake-up is run_seconds after the    *)
(* connection opened, however long before that run() was called.            *)
C37_HandshakeOrder ==
    op = "MexcWSRecorder" =>
        /\ opened_at = None =>
              sent = << >> /\ ping.state = "none" /\ stopper.state = "none"
        /\ \A i \in 1..Len(sent) : (sent[i] = Ping) <=> (i > 6)
        /\ stopper.state # "none" => stopper.due = opened_at + run_seconds

C37_Witness ==
    /\ op = "MexcWSRecorder" /\ session = 1 /\ run_at = 0 /\ opened_at = TickS
    /\ stopper.due = TickS + run_seconds
    /\ Len(sent) = 8 /\ sent[7] = Ping /\ sent[8] = Ping

(* C38 as claimed: when main() has gone through its funding block and its   *)
(* backfill loops, the funding history and every K-line, index and fair     *)
(* interval had its backfill function called, whichever requests failed.    *)
C38_EveryBackfillAttempted ==
    (op = "main_backfills" /\ pc = "done") =>
        attempted = 0..Len(MainJobs)

(* C39 as claimed: _on_message does not raise on a message that json.loads  *)
(* accepted, whatever its `data` member is.                                 *)
C39_DispatchNeverRaises ==
    (received >= 1 /\ msg.json) => ~msg_raised

====
